---------------------------- MODULE Spec2Model ----------------------------
(***************************************************************************)
(* Hotel Booking API (src/main.py, src/schemas.py).                        *)
(*                                                                         *)
(* The state is the document store (four collections), the module-level   *)
(* store handle `db`, and, per request worker, the request being served,  *)
(* the handler's position and locals, and the response.  Every handler is *)
(* cut at its store operations: one action per store call, with the local *)
(* code before and after it.                                               *)
(*                                                                         *)
(* Strings that the code inspects (emails, hotel ids, names, messages)    *)
(* are sequences of one-character strings.  An Optional value is <<>>     *)
(* (None) or <<v>>.                                                        *)
(***************************************************************************)
EXTENDS Integers, Sequences, FiniteSets

VARIABLES db, store, pc, req, loc, resp

vars == <<db, store, pc, req, loc, resp>>

(***************************************************************************)
(* Bounds of the model.                                                    *)
(***************************************************************************)
\* bookings the store may hold before further booking requests are refused
MaxBookings == 2
\* contact messages the store may hold
MaxContacts == 1
\* longest contact message drawn
MaxMsgLen == 6
\* value of the first identifier the store assigns
FirstOid == 10

\* the threads serving requests
Workers == {"w1", "w2"}

(***************************************************************************)
(* Optional values and Python truthiness.                                  *)
(***************************************************************************)
None == <<>>

Some(v) == <<v>>

\* `if x` for an Optional[dict] holding a non-empty document
TruthyDoc(opt) == opt # None

\* `x or y` / `if x` for an Optional[str] kept as a character sequence
TruthySeq(opt) == opt # None /\ opt[1] # <<>>

\* `if x` for an Optional[str] kept as a string
TruthyStr(opt) == opt # None /\ opt[1] # ""

(***************************************************************************)
(* bson.ObjectId: 12 bytes, written as 24 hexadecimal digits.              *)
(***************************************************************************)
OidLen == 24

HexDigits == <<"0","1","2","3","4","5","6","7","8","9","a","b","c","d","e","f">>

UpperDigits == <<"0","1","2","3","4","5","6","7","8","9","A","B","C","D","E","F">>

HexChars == {HexDigits[i] : i \in 1..16} \cup {UpperDigits[i] : i \in 1..16}

HexVal(c) == (CHOOSE i \in 1..16 : HexDigits[i] = c \/ UpperDigits[i] = c) - 1

\* ObjectId.is_valid for a str
IsValidOid(s) == Len(s) = OidLen /\ \A i \in 1..Len(s) : s[i] \in HexChars

\* ObjectId(s): the identifier as a sequence of 4-bit values; raises
\* InvalidId (here: guarded by IsValidOid) on anything else
ObjectId(s) == [i \in 1..Len(s) |-> HexVal(s[i])]

\* str(oid)
OidStr(oid) == [i \in 1..Len(oid) |-> HexDigits[oid[i] + 1]]

\* the same text in upper case, which ObjectId() also accepts
OidUpper(oid) == [i \in 1..Len(oid) |-> UpperDigits[oid[i] + 1]]

RECURSIVE Nibbles(_, _)
Nibbles(n, len) ==
    IF len = 0 THEN <<>> ELSE Append(Nibbles(n \div 16, len - 1), n % 16)

\* the identifier the store assigns to the k-th document of a collection;
\* identifiers are opaque and unique across the store
OidBase(coll) ==
    CASE coll = "hotel" -> FirstOid
      [] coll = "user" -> FirstOid + 64
      [] coll = "booking" -> FirstOid + 128
      [] coll = "contactmessage" -> FirstOid + 192

NewOid(coll, docs) == Nibbles(OidBase(coll) + Len(docs), OidLen)

(***************************************************************************)
(* pydantic EmailStr                                                       *)
(***************************************************************************)
Positions(s, c) == {i \in 1..Len(s) : s[i] = c}

\* one "@", a non-empty local part, a domain with an inner period
IsEmail(s) ==
    /\ Cardinality(Positions(s, "@")) = 1
    /\ LET at == CHOOSE i \in Positions(s, "@") : TRUE
       IN  /\ at > 1
           /\ \E d \in Positions(s, ".") : d > at + 1 /\ d < Len(s)

\* s.split("@")[0]
SplitAt0(s) ==
    IF Positions(s, "@") = {} THEN s
    ELSE LET at == CHOOSE i \in Positions(s, "@") :
                       \A j \in Positions(s, "@") : i <= j
         IN  SubSeq(s, 1, at - 1)

(***************************************************************************)
(* Schemas (src/schemas.py) and request models (src/main.py).              *)
(***************************************************************************)
MinGuests == 1

MaxGuests == 10

MinMessageLength == 5

\* LoginRequest: name optional, email an EmailStr
LoginRequestValid(r) == IsEmail(r.email)

\* BookingRequest: guests is a plain int here
BookingRequestValid(r) == IsEmail(r.user_email)

\* Booking(**req.model_dump()): the schema that bounds guests
BookingValid(data) ==
    /\ IsEmail(data.user_email)
    /\ data.guests >= MinGuests
    /\ data.guests <= MaxGuests

\* a bug: the length bound read as strict
ContactMessageLonger(r) ==
    /\ IsEmail(r.email)
    /\ Len(r.message) > MinMessageLength

\* ContactMessage, validated as the request body of POST /contact
ContactMessageValid(r) ==
    /\ IsEmail(r.email)
    /\ Len(r.message) >= MinMessageLength

\* what the framework does with a payload before the handler runs
PayloadValid(r) ==
    CASE r.kind = "login" -> LoginRequestValid(r)
      [] r.kind = "booking" -> BookingRequestValid(r)
      [] r.kind = "contact" -> ContactMessageValid(r)
      [] OTHER -> TRUE

\* rating is kept in tenths (4.6 is 46); images are left out of the records
SAMPLE_HOTELS ==
    << [name |-> "Seaside Paradise Resort", city |-> "Miami",
        description |-> "Oceanfront resort with private beach, pool, and spa.",
        price_per_night |-> 219, rating |-> 46],
       [name |-> "Urban Chic Hotel", city |-> "New York",
        description |-> "Boutique hotel in the heart of the city with skyline views.",
        price_per_night |-> 299, rating |-> 47],
       [name |-> "Mountain Escape Lodge", city |-> "Denver",
        description |-> "Cozy lodge with mountain views, hiking access, and hot tubs.",
        price_per_night |-> 189, rating |-> 45] >>

(***************************************************************************)
(* The persistence helper and the store client.                            *)
(***************************************************************************)
\* a Mongo equality filter: every key of the filter equals the document's
Matches(doc, flt) == \A k \in DOMAIN flt : doc[k] = flt[k]

\* db[coll].find_one(flt): the first matching document, or None
FindOne(docs, flt) ==
    LET S == {i \in 1..Len(docs) : Matches(docs[i], flt)}
    IN  IF S = {} THEN None
        ELSE Some(docs[CHOOSE i \in S : \A j \in S : i <= j])

\* get_documents(coll, flt, None): every matching document, in store order
RECURSIVE GetDocuments(_, _)
GetDocuments(docs, flt) ==
    IF docs = <<>> THEN <<>>
    ELSE IF Matches(Head(docs), flt)
         THEN <<Head(docs)>> \o GetDocuments(Tail(docs), flt)
         ELSE GetDocuments(Tail(docs), flt)

\* the document as stored: the entity's fields and the assigned _id
WithId(data, oid) ==
    [k \in DOMAIN data \cup {"_id"} |-> IF k = "_id" THEN oid ELSE data[k]]

\* create_document(coll, data): the collection after the insert
CreateDocument(coll, data) ==
    [store EXCEPT ![coll] = Append(@, WithId(data, NewOid(coll, @)))]

\* the id create_document returns for that insert
CreatedId(coll) == OidStr(NewOid(coll, store[coll]))

\* serialize_doc: "_id" becomes a string-typed "id"; the documents listed
\* hold no date, so the isoformat pass changes nothing
serialize_doc(doc) ==
    [k \in (DOMAIN doc \ {"_id"}) \cup {"id"} |->
        IF k = "id" THEN OidStr(doc["_id"]) ELSE doc[k]]

(***************************************************************************)
(* Requests drawn by the model.                                            *)
(***************************************************************************)
EmailA == <<"a", "@", "x", ".", "y">>

EmailB == <<"b", "@", "x", ".", "y">>

NotAnEmail == <<"a", "x", ".", "y">>

NameAnn == <<"A", "n", "n">>

\* hotel_id texts: the first identifier the store assigns to a hotel, the
\* same in upper case, a well-formed one no hotel gets, and one that is no
\* ObjectId
IdFirst == OidStr(Nibbles(FirstOid, OidLen))

IdFirstUpper == OidUpper(Nibbles(FirstOid, OidLen))

IdNoHotel == OidStr(Nibbles(FirstOid + 63, OidLen))

IdMalformed == <<"n", "o", "-", "i", "d">>

Message(n) == [i \in 1..n |-> "m"]

LoginRequests(names, emails) ==
    {[kind |-> "login", name |-> n, email |-> e] : n \in names, e \in emails}

BookingRequests(emails, ids, days, guests) ==
    {[kind |-> "booking", user_email |-> e, hotel_id |-> h, check_in |-> ci,
      check_out |-> co, guests |-> g, special_requests |-> None] :
        e \in emails, h \in ids, ci \in days, co \in days, g \in guests}

ContactRequests(emails, lens) ==
    {[kind |-> "contact", name |-> NameAnn, email |-> e, message |-> Message(n)] :
        e \in emails, n \in lens}

ListRequests(cities) == {[kind |-> "list", city |-> c] : c \in cities}

SeedRequests == {[kind |-> "seed"]}

NoRequest == [kind |-> "none"]

NoResponse == [status |-> 0]

NoLocals == [i |-> 0, found |-> None, calls |-> 0]

Response(status, body) == [status |-> status, body |-> body]

Error(status, detail) == [status |-> status, body |-> [detail |-> detail]]

(***************************************************************************)
(* State after construction: an empty store, no request in flight.  The    *)
(* handle `db` is set once, when the database module is imported.          *)
(***************************************************************************)
EmptyStore ==
    [hotel |-> <<>>, user |-> <<>>, booking |-> <<>>, contactmessage |-> <<>>]

InitWorkers ==
    /\ pc = [w \in Workers |-> "idle"]
    /\ req = [w \in Workers |-> NoRequest]
    /\ loc = [w \in Workers |-> NoLocals]
    /\ resp = [w \in Workers |-> NoResponse]

Init ==
    /\ db \in BOOLEAN
    /\ store = EmptyStore
    /\ InitWorkers

(***************************************************************************)
(* Steps shared by the handlers.                                           *)
(***************************************************************************)
\* the handler returns or raises: the response is fixed
Finish(w, response, locals) ==
    /\ pc' = [pc EXCEPT ![w] = "done"]
    /\ resp' = [resp EXCEPT ![w] = response]
    /\ loc' = [loc EXCEPT ![w] = locals]
    /\ UNCHANGED <<db, req>>

\* the handler moves on to its next store call
Goto(w, label, locals) ==
    /\ pc' = [pc EXCEPT ![w] = label]
    /\ loc' = [loc EXCEPT ![w] = locals]
    /\ UNCHANGED <<db, req, resp>>

Called(w) == [loc[w] EXCEPT !.calls = @ + 1]

InFlight(kind) == Cardinality({w \in Workers : req[w].kind = kind})

\* room left in the bounded collections for the insert a request may make
\* (a bound of the model: the store itself has none)
HasRoom(r) ==
    CASE r.kind = "booking" /\ PayloadValid(r) ->
             Len(store.booking) + InFlight("booking") < MaxBookings
      [] r.kind = "contact" /\ PayloadValid(r) ->
             Len(store.contactmessage) + InFlight("contact") < MaxContacts
      [] OTHER -> TRUE

FirstLabel(r) ==
    CASE r.kind = "login" -> "login_find"
      [] r.kind = "seed" -> "seed_find"
      [] r.kind = "list" -> "list_query"
      [] r.kind = "booking" -> "booking_find"
      [] r.kind = "contact" -> "contact_create"

\* a request arrives: the framework validates the payload against the
\* handler's parameter model and either answers 422 or calls the handler
Receive(w, r) ==
    /\ pc[w] = "idle"
    /\ HasRoom(r)
    /\ req' = [req EXCEPT ![w] = r]
    /\ loc' = [loc EXCEPT ![w] = [NoLocals EXCEPT !.i = 1]]
    /\ IF PayloadValid(r)
       THEN /\ pc' = [pc EXCEPT ![w] = FirstLabel(r)]
            /\ resp' = resp
       ELSE /\ pc' = [pc EXCEPT ![w] = "done"]
            /\ resp' = [resp EXCEPT ![w] = Error(422, "validation error")]
    /\ UNCHANGED <<db, store>>

\* the response is sent; the worker is free again
Return(w) ==
    /\ pc[w] = "done"
    /\ pc' = [pc EXCEPT ![w] = "idle"]
    /\ req' = [req EXCEPT ![w] = NoRequest]
    /\ loc' = [loc EXCEPT ![w] = NoLocals]
    /\ resp' = [resp EXCEPT ![w] = NoResponse]
    /\ UNCHANGED <<db, store>>

(***************************************************************************)
(* POST /auth/login                                                        *)
(***************************************************************************)
user_data(r) ==
    [name |-> IF TruthySeq(r.name) THEN r.name[1] ELSE SplitAt0(r.email),
     email |-> r.email,
     password_hash |-> "demo-hash"]

LoginBody(existing, r) ==
    [user |-> [name |-> existing.name, email |-> r.email]]

\* a bug: the result of the lookup is ignored
LoginAlwaysCreates(existing) == TRUE

\* whether login goes on to create the user
LoginMustCreate(existing) == ~TruthyDoc(existing)

\* existing = db["user"].find_one({"email": req.email}) if db else None
LoginFind(w) ==
    /\ pc[w] = "login_find"
    /\ LET r == req[w]
           existing == IF db THEN FindOne(store.user, [email |-> r.email])
                       ELSE None
           locals == IF db THEN Called(w) ELSE loc[w]
       IN  IF LoginMustCreate(existing)
           THEN Goto(w, "login_create", locals)
           ELSE Finish(w, Response(200, LoginBody(existing[1], r)),
                       [locals EXCEPT !.found = existing])
    /\ UNCHANGED store

\* create_document("user", user_data)
LoginCreate(w) ==
    /\ pc[w] = "login_create"
    /\ IF db
       THEN /\ store' = CreateDocument("user", user_data(req[w]))
            /\ Goto(w, "login_refind", Called(w))
       ELSE /\ store' = store
            /\ Finish(w, Error(500, "Database not available"), loc[w])

\* existing = db["user"].find_one(...) if db else user_data; return
LoginRefind(w) ==
    /\ pc[w] = "login_refind"
    /\ LET r == req[w]
           existing == IF db THEN FindOne(store.user, [email |-> r.email])
                       ELSE Some(user_data(r))
           locals == [Called(w) EXCEPT !.found = existing]
       IN  IF existing = None
           THEN Finish(w, Error(500, "'NoneType' object has no attribute 'get'"),
                       locals)
           ELSE Finish(w, Response(200, LoginBody(existing[1], r)), locals)
    /\ UNCHANGED store

(***************************************************************************)
(* POST /hotels/seed                                                       *)
(***************************************************************************)
\* a bug: the result of the lookup is ignored
SeedAlwaysInserts(exists) == TRUE

\* whether seed inserts the sample hotel it looked up
SeedMustInsert(exists) == ~TruthyDoc(exists)

\* the loop moves to the next sample hotel, or the handler returns
SeedAdvance(w, locals) ==
    IF locals.i = Len(SAMPLE_HOTELS)
    THEN Finish(w, Response(200, [status |-> "ok"]), locals)
    ELSE Goto(w, "seed_find", [locals EXCEPT !.i = @ + 1, !.found = None])

\* if not db: raise; exists = db["hotel"].find_one({"name": h.name})
SeedFind(w) ==
    /\ pc[w] = "seed_find"
    /\ IF ~db
       THEN Finish(w, Error(500, "Database not configured"), loc[w])
       ELSE LET h == SAMPLE_HOTELS[loc[w].i]
                exists == FindOne(store.hotel, [name |-> h.name])
                locals == [Called(w) EXCEPT !.found = exists]
            IN  IF SeedMustInsert(exists)
                THEN Goto(w, "seed_insert", locals)
                ELSE SeedAdvance(w, locals)
    /\ UNCHANGED store

\* a different program: the insert checks again and keeps a present name
SeedUpsertStore(h) ==
    IF FindOne(store.hotel, [name |-> h.name]) # None
    THEN store
    ELSE CreateDocument("hotel", h)

\* the store after create_document("hotel", h)
SeedInsertStore(h) == CreateDocument("hotel", h)

SeedInsert(w) ==
    /\ pc[w] = "seed_insert"
    /\ store' = SeedInsertStore(SAMPLE_HOTELS[loc[w].i])
    /\ SeedAdvance(w, Called(w))

(***************************************************************************)
(* GET /hotels                                                             *)
(***************************************************************************)
\* a bug: `if city is not None`, so the empty string filters too
CityFilterNotNone(city) == IF city # None THEN [city |-> city[1]] ELSE <<>>

\* flt = {"city": city} if city else {}
CityFilter(city) == IF TruthyStr(city) THEN [city |-> city[1]] ELSE <<>>

SerializeAll(docs) == [i \in 1..Len(docs) |-> serialize_doc(docs[i])]

list_hotels(w) ==
    /\ pc[w] = "list_query"
    /\ IF db
       THEN Finish(w, Response(200,
                     SerializeAll(GetDocuments(store.hotel, CityFilter(req[w].city)))),
                   Called(w))
       ELSE Finish(w, Error(500, "Database not available"), loc[w])
    /\ UNCHANGED store

(***************************************************************************)
(* POST /bookings                                                          *)
(***************************************************************************)
BookingFields ==
    {"user_email", "hotel_id", "check_in", "check_out", "guests", "special_requests"}

\* req.model_dump()
model_dump(r) == [k \in BookingFields |-> r[k]]

\* a different program: the booking is stored as the request gave it
BookingUnchecked(r) == TRUE

\* a different program: the schema also orders the dates
BookingWithDateOrder(r) ==
    BookingValid(model_dump(r)) /\ r.check_out > r.check_in

\* whether Booking(**req.model_dump()) constructs
BookingConstructs(r) == BookingValid(model_dump(r))

\* if not db: raise; hotel = db["hotel"].find_one({"_id": ObjectId(hotel_id)});
\* 404 if absent; booking = Booking(**req.model_dump())
BookingFind(w) ==
    /\ pc[w] = "booking_find"
    /\ LET r == req[w] IN
       IF ~db
       THEN Finish(w, Error(500, "Database not configured"), loc[w])
       ELSE IF ~IsValidOid(r.hotel_id)
       THEN Finish(w, Error(500, "not a valid ObjectId"), loc[w])
       ELSE LET hotel == FindOne(store.hotel, [_id |-> ObjectId(r.hotel_id)])
                locals == [Called(w) EXCEPT !.found = hotel]
            IN  IF ~TruthyDoc(hotel)
                THEN Finish(w, Error(404, "Hotel not found"), locals)
                ELSE IF ~BookingConstructs(r)
                THEN Finish(w, Error(500, "validation error for Booking"), locals)
                ELSE Goto(w, "booking_insert", locals)
    /\ UNCHANGED store

\* booking_id = create_document("booking", booking); return
BookingInsert(w) ==
    /\ pc[w] = "booking_insert"
    /\ store' = CreateDocument("booking", model_dump(req[w]))
    /\ Finish(w, Response(200, [id |-> CreatedId("booking"),
                                message |-> "Booking confirmed"]),
              Called(w))

(***************************************************************************)
(* POST /contact                                                           *)
(***************************************************************************)
ContactFields == {"name", "email", "message"}

contact(w) ==
    /\ pc[w] = "contact_create"
    /\ IF db
       THEN /\ store' = CreateDocument("contactmessage",
                            [k \in ContactFields |-> req[w][k]])
            /\ Finish(w, Response(200, [id |-> CreatedId("contactmessage"),
                                        status |-> "received"]),
                      Called(w))
       ELSE /\ store' = store
            /\ Finish(w, Error(500, "Database not available"), loc[w])

(***************************************************************************)
(* Specifications.                                                         *)
(***************************************************************************)
HotelStep(w) ==
    \/ SeedFind(w)
    \/ SeedInsert(w)
    \/ list_hotels(w)
    \/ BookingFind(w)
    \/ BookingInsert(w)

PeopleStep(w) ==
    \/ LoginFind(w)
    \/ LoginCreate(w)
    \/ LoginRefind(w)
    \/ contact(w)

AllIdle == \A w \in Workers : pc[w] = "idle"

\* the worker that serves the requests when they come one after another
SeqWorker == CHOOSE w \in Workers : TRUE

\* requests of every endpoint, served concurrently by the workers
ConcurrentRequests ==
    SeedRequests
    \cup LoginRequests({None}, {EmailA})
    \cup BookingRequests({EmailA}, {IdFirst}, {1}, {0, 1})
    \cup ContactRequests({EmailA}, {MinMessageLength})
    \cup ListRequests({None})

Next ==
    \E w \in Workers :
        \/ \E r \in ConcurrentRequests : Receive(w, r)
        \/ HotelStep(w)
        \/ PeopleStep(w)
        \/ Return(w)

Spec == Init /\ [][Next]_vars

\* the hotel and booking endpoints, one request after another
HotelRequests ==
    SeedRequests
    \cup ListRequests({None, Some(""), Some("Miami"), Some("Paris")})
    \cup BookingRequests({EmailA, NotAnEmail},
                         {IdFirst, IdFirstUpper, IdNoHotel, IdMalformed},
                         {1, 2}, {0, 1, 10, 11})

NextHotels ==
    \E w \in {SeqWorker} :
        \/ AllIdle /\ \E r \in HotelRequests : Receive(w, r)
        \/ HotelStep(w)
        \/ Return(w)

SpecHotels == Init /\ [][NextHotels]_vars

\* the hotel collection two racing seed requests leave behind: both saw the
\* first sample hotel absent and both inserted it
RacedHotels ==
    << WithId(SAMPLE_HOTELS[1], Nibbles(FirstOid, OidLen)),
       WithId(SAMPLE_HOTELS[1], Nibbles(FirstOid + 1, OidLen)),
       WithId(SAMPLE_HOTELS[2], Nibbles(FirstOid + 2, OidLen)),
       WithId(SAMPLE_HOTELS[3], Nibbles(FirstOid + 3, OidLen)) >>

\* seed and list requests, one after another, on a store that is empty or
\* was left by earlier, concurrent, seed requests
InitSeed ==
    /\ db \in BOOLEAN
    /\ store \in {EmptyStore, [EmptyStore EXCEPT !.hotel = RacedHotels]}
    /\ InitWorkers

SeedStep(w) ==
    \/ SeedFind(w)
    \/ SeedInsert(w)
    \/ list_hotels(w)

NextSeed ==
    \E w \in Workers :
        \/ /\ AllIdle
           /\ \E r \in SeedRequests
                       \cup ListRequests({None, Some(""), Some("Miami"), Some("Denver")}) :
                 Receive(w, r)
        \/ SeedStep(w)
        \/ Return(w)

SpecSeed == InitSeed /\ [][NextSeed]_vars

\* the login and contact endpoints, one request after another
PeopleRequests ==
    LoginRequests({None, Some(<<>>), Some(NameAnn)}, {EmailA, EmailB, NotAnEmail})
    \cup ContactRequests({EmailA, NotAnEmail}, 3..MaxMsgLen)

NextPeople ==
    \E w \in {SeqWorker} :
        \/ AllIdle /\ \E r \in PeopleRequests : Receive(w, r)
        \/ PeopleStep(w)
        \/ Return(w)

SpecPeople == Init /\ [][NextPeople]_vars

(***************************************************************************)
(* Vocabulary of the properties.                                           *)
(***************************************************************************)
CountBy(docs, key, val) == Cardinality({i \in 1..Len(docs) : docs[i][key] = val})

IsPrefix(a, b) == Len(a) <= Len(b) /\ SubSeq(b, 1, Len(a)) = a

\* the text hid is the identifier of the stored hotel h
Identifies(hid, h) == IsValidOid(hid) /\ ObjectId(hid) = h["_id"]

HotelPresent(hid) == \E i \in 1..Len(store.hotel) : Identifies(hid, store.hotel[i])

SampleNames == {SAMPLE_HOTELS[i].name : i \in 1..Len(SAMPLE_HOTELS)}

HotelsNamed(n) == CountBy(store.hotel, "name", n)

UsersWith(e) == CountBy(store.user, "email", e)

GuestsInRange(g) == g \in MinGuests..MaxGuests

\* worker w has answered a request of this kind and the answer is not yet sent
Done(w, kind) == pc[w] = "done" /\ req[w].kind = kind

DoneOk(w, kind) == Done(w, kind) /\ resp[w].status = 200

LastOf(docs) == docs[Len(docs)]

(***************************************************************************)
(* C1.  A booking request whose hotel_id identifies no hotel of the hotel  *)
(* collection is answered 404 (stated for payloads the framework accepts   *)
(* and a configured store).  The code answers 500 when hotel_id is not the *)
(* text of an ObjectId.                                                    *)
(***************************************************************************)
C1_AbsentHotelIs404 ==
    \A w \in Workers :
        (/\ Done(w, "booking")
         /\ db
         /\ BookingRequestValid(req[w])
         /\ ~HotelPresent(req[w].hotel_id))
        => resp[w].status = 404

(***************************************************************************)
(* C2.  Seeding is idempotent.  As claimed: after a seed request that ran  *)
(* alone, from any store state, each sample name is held exactly once.     *)
(***************************************************************************)
C2_ExactlyOneFromAnyStore ==
    \A w \in Workers :
        DoneOk(w, "seed") => \A n \in SampleNames : HotelsNamed(n) = 1

\* C2 as amended: requests served one after another; a seed request that
\* answers ok leaves every sample name present; a step never adds a hotel
\* whose name the collection already holds and adds at most one of an absent
\* name, so a store with at most one hotel per sample name ends with exactly
\* one of each; and once all three are present the collection no longer
\* changes (the second seed leaves it as the first left it).
C2_AllPresent ==
    \A w \in Workers :
        DoneOk(w, "seed") => \A n \in SampleNames : HotelsNamed(n) >= 1

C2_NoSecondInsert ==
    /\ \A n \in SampleNames :
          \/ HotelsNamed(n)' = HotelsNamed(n)
          \/ HotelsNamed(n) = 0 /\ HotelsNamed(n)' = 1
    /\ (\A n \in SampleNames : HotelsNamed(n) >= 1) => store'.hotel = store.hotel
    /\ \A i \in 1..Len(store'.hotel) : store'.hotel[i].name \in SampleNames

\* C2 (amended): served one after another, a seed request that answers ok
\* leaves every sample name present and no step adds a name already held
C2_SeedIdempotent == []C2_AllPresent /\ [][C2_NoSecondInsert]_vars

\* a seed request that found all three hotels present, in a store seeded
\* from empty
C2_Witness ==
    \E w \in Workers :
        /\ DoneOk(w, "seed")
        /\ loc[w].calls = Len(SAMPLE_HOTELS)
        /\ Len(store.hotel) = Len(SAMPLE_HOTELS)

(***************************************************************************)
(* C3.  A booking request with guests outside 1..10 performs no store      *)
(* operation.  The code looks the hotel up before the Booking schema is    *)
(* applied.                                                                *)
(***************************************************************************)
C3_NoStoreCallForBadGuests ==
    \A w \in Workers :
        (req[w].kind = "booking" /\ ~GuestsInRange(req[w].guests))
        => loc[w].calls = 0

(***************************************************************************)
(* C4.  A payload that violates its schema is answered with a validation   *)
(* error, never 404 or 500 (stated for a configured store and, for a       *)
(* booking, a hotel_id that is the text of an ObjectId).                   *)
(***************************************************************************)
SchemaViolation(r) ==
    CASE r.kind = "booking" -> ~BookingValid(r)
      [] r.kind = "contact" -> ~ContactMessageValid(r)
      [] r.kind = "login" -> ~LoginRequestValid(r)
      [] OTHER -> FALSE

C4_ValidationErrorIs422 ==
    \A w \in Workers :
        (/\ pc[w] = "done"
         /\ db
         /\ SchemaViolation(req[w])
         /\ req[w].kind = "booking" => IsValidOid(req[w].hotel_id))
        => resp[w].status = 422

(***************************************************************************)
(* C5.  GET /hotels returns exactly the hotels whose city equals the       *)
(* filter, and all hotels without a filter.                                *)
(***************************************************************************)
HotelsIn(c) == SelectSeq(store.hotel, LAMBDA h : h.city = c)

\* the response body lists exactly these documents, in this order
Lists(body, docs) ==
    /\ Len(body) = Len(docs)
    /\ \A i \in 1..Len(docs) :
          /\ body[i].id = OidStr(docs[i]["_id"])
          /\ body[i].name = docs[i].name
          /\ body[i].city = docs[i].city

\* as claimed: every filter value, the empty string included, is matched
\* exactly
C5_ExactMatchEveryValue ==
    \A w \in Workers :
        DoneOk(w, "list") =>
            IF req[w].city = None
            THEN Lists(resp[w].body, store.hotel)
            ELSE Lists(resp[w].body, HotelsIn(req[w].city[1]))

\* C5 as amended: a non-empty filter value is matched exactly; no filter and
\* the empty string both return every stored hotel; the store is unchanged.
C5_Listing ==
    \A w \in Workers :
        DoneOk(w, "list") =>
            IF req[w].city = None \/ req[w].city = Some("")
            THEN Lists(resp[w].body, store.hotel)
            ELSE Lists(resp[w].body, HotelsIn(req[w].city[1]))

C5_StoreUnchanged ==
    \A w \in Workers : pc[w] = "list_query" => store' = store

\* C5 (amended): exact match for a non-empty filter, every hotel otherwise,
\* and the store unchanged
C5_ListHotels == []C5_Listing /\ [][C5_StoreUnchanged]_vars

\* a listing that the filter narrowed
C5_Witness ==
    \E w \in Workers :
        /\ DoneOk(w, "list")
        /\ req[w].city = Some("Miami")
        /\ Len(resp[w].body) >= 1
        /\ Len(resp[w].body) < Len(store.hotel)

(***************************************************************************)
(* C6.  Login is find-or-create by email, requests served one after        *)
(* another: no two user records share an email; a login that answers 200   *)
(* leaves exactly one record of its email and returns that record's name   *)
(* and the request's email; while a login's email is present the user      *)
(* collection does not change; and the collection only grows by one record *)
(* of the email being logged in.                                           *)
(***************************************************************************)
C6_OnePerEmail ==
    /\ \A i, j \in 1..Len(store.user) :
          i # j => store.user[i].email # store.user[j].email
    /\ \A w \in Workers :
          DoneOk(w, "login") =>
              /\ UsersWith(req[w].email) = 1
              /\ resp[w].body.user.email = req[w].email
              /\ \E i \in 1..Len(store.user) :
                    /\ store.user[i].email = req[w].email
                    /\ store.user[i].name = resp[w].body.user.name

C6_NoUpdate ==
    /\ IsPrefix(store.user, store'.user)
    /\ \A w \in Workers :
          (req[w].kind = "login" /\ UsersWith(req[w].email) >= 1)
          => store'.user = store.user
    /\ store'.user # store.user =>
          \E w \in Workers :
              /\ pc[w] = "login_create"
              /\ store'.user = Append(store.user, LastOf(store'.user))
              /\ LastOf(store'.user).email = req[w].email

\* C6: one user record per email, never updated, returned as stored
C6_FindOrCreate == []C6_OnePerEmail /\ [][C6_NoUpdate]_vars

\* a login that found its user, asked for another name and got the stored one
C6_Witness ==
    \E w \in Workers :
        /\ DoneOk(w, "login")
        /\ loc[w].calls = 1
        /\ req[w].name = Some(NameAnn)
        /\ resp[w].body.user.name # NameAnn
        /\ Len(store.user) = 2

(***************************************************************************)
(* C7.  A well-formed booking request for an existing hotel with guests in *)
(* 1..10 is answered 200 with "Booking confirmed" and the id of the new    *)
(* record, whatever the dates and the bookings already stored; the insert  *)
(* appends exactly one record, which carries the request's fields.         *)
(***************************************************************************)
C7_Confirmed ==
    \A w \in Workers :
        (/\ Done(w, "booking")
         /\ BookingRequestValid(req[w])
         /\ HotelPresent(req[w].hotel_id)
         /\ GuestsInRange(req[w].guests))
        => /\ resp[w].status = 200
           /\ resp[w].body.message = "Booking confirmed"
           /\ resp[w].body.id # <<>>
           /\ store.booking # <<>>
           /\ resp[w].body.id = OidStr(LastOf(store.booking)["_id"])
           /\ \A k \in BookingFields : LastOf(store.booking)[k] = req[w][k]

C7_OneRecord ==
    \A w \in Workers :
        (pc[w] = "booking_insert" /\ pc'[w] = "done")
        => /\ Len(store'.booking) = Len(store.booking) + 1
           /\ IsPrefix(store.booking, store'.booking)
           /\ [store' EXCEPT !.booking = store.booking] = store

\* C7: the booking is confirmed and exactly one record is appended
C7_BookingSucceeds == []C7_Confirmed /\ [][C7_OneRecord]_vars

\* check_out before check_in, and an earlier booking of the same hotel
C7_Witness ==
    \E w \in Workers :
        /\ DoneOk(w, "booking")
        /\ req[w].check_out < req[w].check_in
        /\ Len(store.booking) = 2
        /\ ObjectId(store.booking[1].hotel_id) = ObjectId(store.booking[2].hotel_id)

(***************************************************************************)
(* C8.  POST /contact with a message shorter than 5 is rejected (422)      *)
(* before any store call and stores nothing; with 5 or more characters, a  *)
(* valid email and a configured store it appends exactly one record and    *)
(* answers with its id and status "received".                              *)
(***************************************************************************)
C8_Answer ==
    \A w \in Workers :
        Done(w, "contact") =>
            /\ Len(req[w].message) < 5 =>
                  resp[w].status = 422 /\ loc[w].calls = 0
            /\ (Len(req[w].message) >= 5 /\ IsEmail(req[w].email) /\ db) =>
                  /\ resp[w].status = 200
                  /\ resp[w].body.status = "received"
                  /\ store.contactmessage # <<>>
                  /\ resp[w].body.id = OidStr(LastOf(store.contactmessage)["_id"])
                  /\ \A k \in ContactFields :
                        LastOf(store.contactmessage)[k] = req[w][k]

C8_Stored ==
    \A w \in Workers :
        (pc[w] # "done" /\ pc'[w] = "done" /\ req'[w].kind = "contact") =>
            IF Len(req'[w].message) < 5
            THEN store' = store
            ELSE resp'[w].status = 200 =>
                    /\ Len(store'.contactmessage) = Len(store.contactmessage) + 1
                    /\ IsPrefix(store.contactmessage, store'.contactmessage)

\* C8: a message under 5 characters is rejected and stores nothing; a
\* longer one is stored once and answered "received"
C8_Contact == []C8_Answer /\ [][C8_Stored]_vars

\* a 4-character message rejected after a 5-character one was stored
C8_Witness ==
    \E w \in Workers :
        /\ Done(w, "contact")
        /\ Len(req[w].message) = 4
        /\ resp[w].status = 422
        /\ Len(store.contactmessage) = 1
        /\ Len(store.contactmessage[1].message) = 5

(***************************************************************************)
(* C9.  Check and insert are separate steps of seed and login: a request   *)
(* that saw the name (email) absent inserts whatever the collection holds  *)
(* by then, so interleaved requests leave duplicates; and a request in     *)
(* flight can always take its next step, whatever the others do.           *)
(***************************************************************************)
C9_NeverBlocked ==
    \A w \in Workers :
        pc[w] # "idle" => ENABLED (HotelStep(w) \/ PeopleStep(w) \/ Return(w))

C9_InsertAfterCheck ==
    /\ \A w \in Workers :
          (pc[w] = "seed_insert" /\ pc'[w] # "seed_insert") =>
              /\ Len(store'.hotel) = Len(store.hotel) + 1
              /\ LastOf(store'.hotel).name = SAMPLE_HOTELS[loc[w].i].name
    /\ \A w \in Workers :
          (pc[w] = "login_create" /\ pc'[w] # "login_create" /\ db) =>
              /\ Len(store'.user) = Len(store.user) + 1
              /\ LastOf(store'.user).email = req[w].email

\* C9: the insert follows the check without looking again, and no request
\* in flight is ever blocked
C9_Unguarded == []C9_NeverBlocked /\ [][C9_InsertAfterCheck]_vars

\* two hotels of one sample name and two users of one email, all requests
\* answered
C9_Witness ==
    /\ AllIdle
    /\ store.hotel = RacedHotels
    /\ \E i, j \in 1..Len(store.user) :
          i < j /\ store.user[i].email = store.user[j].email

(***************************************************************************)
(* C10.  Every stored booking has guests in 1..10 and the hotel_id of a    *)
(* stored hotel, under every interleaving.                                 *)
(***************************************************************************)
C10_BookingsSound ==
    \A i \in 1..Len(store.booking) :
        /\ GuestsInRange(store.booking[i].guests)
        /\ HotelPresent(store.booking[i].hotel_id)

\* a booking is stored while a seed request is still running and a booking
\* with guests out of range has been refused
C10_Witness ==
    /\ store.booking # <<>>
    /\ \E w, v \in Workers :
          /\ pc[w] = "seed_find"
          /\ Done(v, "booking")
          /\ ~GuestsInRange(req[v].guests)
          /\ resp[v].status = 500

=============================================================================
